---- MODULE Spec2Model ----
(***************************************************************************)
(* Model of the offline sync engine (src/wasm/sync_engine.cpp): two keyed  *)
(* message stores, the diff of the two, the prefix/suffix delta codec,     *)
(* last-write-wins conflict resolution and the statistics.                 *)
(*                                                                         *)
(* A std::string is a sequence of byte values (0..255); a store is a       *)
(* function from the ids it holds to Message records.                      *)
(***************************************************************************)
EXTENDS Integers, Sequences, FiniteSets, TLC

VARIABLES
    localMessages,   \* std::unordered_map<int, Message> localMessages
    remoteMessages,  \* std::unordered_map<int, Message> remoteMessages
    ret,             \* the last call: its name, its arguments, what it returned
    lastDiff,        \* what calculateDiff returned since the stores last changed
    passedIds        \* the ids passed to each add operation since the last clear

vars == <<localMessages, remoteMessages, ret, lastDiff, passedIds>>

(***************************************************************************)
(* Bounds of the model and the inputs the callers draw from.               *)
(***************************************************************************)
MaxId == 2
MaxLen == 3

Ids == 1..MaxId

\* 'a' = 97, 'b' = 98, 'A' = 65, ':' = 58, '1' = 49
Colon == 58

\* What the callers put into the stores, as <<content, timestamp>>: the local
\* store is loaded with "ab" at 100 and "" at 200, the remote store with "bA"
\* at 100 and "ab" at 100 and at 200.  "ab" and "bA" are different strings
\* with the same djb2 value (97*33 + 98 = 98*33 + 65).
LocalWrites == {<<<<97, 98>>, 100>>, <<<<>>, 200>>}

RemoteWrites == {<<<<98, 65>>, 100>>, <<<<97, 98>>, 100>>, <<<<97, 98>>, 200>>}

\* The timestamps the callers pass.
Timestamps == {w[2] : w \in LocalWrites \cup RemoteWrites}

\* Contents of the codec specification: every string of at most MaxLen
\* characters over 'a', 'b', ':' and '1'.
CodecAlphabet == {97, 98, 58, 49}

CodecStrings == UNION {[1..n -> CodecAlphabet] : n \in 0..MaxLen}

Range(s) == {s[k] : k \in DOMAIN s}

\* The orders in which an unordered_map holding the keys S may be iterated.
Orders(S) == {o \in [1..Cardinality(S) -> S] : Range(o) = S}

(***************************************************************************)
(* std::to_string of a small size_t: its decimal digits.                   *)
(***************************************************************************)
RECURSIVE to_string(_)
to_string(n) ==
    IF n < 10 THEN <<48 + n>> ELSE Append(to_string(n \div 10), 48 + (n % 10))

(***************************************************************************)
(* hashMessage: djb2 over unsigned long, which is 32 bits wide on the      *)
(* wasm32 target this file is built for.  The value is kept as two 16 bit  *)
(* halves <<hi, lo>> so that no intermediate exceeds the checker's         *)
(* integers; char is signed, so a byte >= 128 is added as byte - 256.      *)
(***************************************************************************)
HashSeed == 5381
HalfWord == 2^16

SignedChar(b) == IF b >= 128 THEN b - 256 ELSE b

\* hash = ((hash << 5) + hash) + c, modulo 2^32
HashStep(h, c) ==
    LET low == h[2] * 33 + SignedChar(c)
    IN <<(h[1] * 33 + (low \div HalfWord)) % HalfWord, low % HalfWord>>

RECURSIVE HashFrom(_, _, _)
HashFrom(h, content, k) ==
    IF k > Len(content) THEN h ELSE HashFrom(HashStep(h, content[k]), content, k + 1)

\* std::to_string of the 32 bit value <<hi, lo>>
RECURSIVE hash_to_string(_)
hash_to_string(h) ==
    LET rem1 == h[1] % 10
        mid  == rem1 * HalfWord + h[2]
        q    == <<h[1] \div 10, mid \div 10>>
        d    == 48 + (mid % 10)
    IN IF q = <<0, 0>> THEN <<d>> ELSE Append(hash_to_string(q), d)

hashMessage(content) ==
    hash_to_string(HashFrom(<<HashSeed \div HalfWord, HashSeed % HalfWord>>, content, 1))

\* Message with the fingerprint taken over content + std::to_string(timestamp).
MessageHashesTimestamp(id, content, timestamp) ==
    [id |-> id, content |-> content, timestamp |-> timestamp,
     hash |-> hashMessage(content \o to_string(timestamp))]

(***************************************************************************)
(* struct Message, as addLocalMessage and addRemoteMessage build it.       *)
(***************************************************************************)
Message(id, content, timestamp) ==
    [id |-> id, content |-> content, timestamp |-> timestamp,
     hash |-> hashMessage(content)]

\* store.insert({id, msg}) written for store[id] = msg: the record of an id
\* the store already holds is kept.
PutKeepsFirst(store, id, msg) ==
    [k \in (DOMAIN store) \cup {id} |-> IF k \in DOMAIN store THEN store[k] ELSE msg]

\* store[id] = msg
Put(store, id, msg) ==
    [k \in (DOMAIN store) \cup {id} |-> IF k = id THEN msg ELSE store[k]]

EmptyStore == [k \in {} |-> 0]

NoDiff == [taken |-> FALSE]

NoIds == [local |-> {}, remote |-> {}]

(***************************************************************************)
(* calculateDiff.  rorder and lorder are the orders in which the two loops *)
(* meet the keys of remoteMessages and of localMessages; each vector is    *)
(* filled by push_back in that order.                                      *)
(***************************************************************************)
\* RemoteLoop with the second test no longer under else: an id that local
\* lacks is pushed to added and to modified.
RECURSIVE RemoteLoopNoElse(_, _, _, _, _, _)
RemoteLoopNoElse(local, remote, rorder, k, added, modified) ==
    IF k > Len(rorder) THEN <<added, modified>>
    ELSE LET id == rorder[k]
         IN IF id \notin DOMAIN local
            THEN RemoteLoopNoElse(local, remote, rorder, k + 1,
                                  Append(added, id), Append(modified, id))
            ELSE IF local[id].hash # remote[id].hash
            THEN RemoteLoopNoElse(local, remote, rorder, k + 1, added,
                                  Append(modified, id))
            ELSE RemoteLoopNoElse(local, remote, rorder, k + 1, added, modified)

\* RemoteLoop comparing the contents instead of the fingerprints.
RECURSIVE RemoteLoopComparesContent(_, _, _, _, _, _)
RemoteLoopComparesContent(local, remote, rorder, k, added, modified) ==
    IF k > Len(rorder) THEN <<added, modified>>
    ELSE LET id == rorder[k]
         IN IF id \notin DOMAIN local
            THEN RemoteLoopComparesContent(local, remote, rorder, k + 1,
                                           Append(added, id), modified)
            ELSE IF local[id].content # remote[id].content
            THEN RemoteLoopComparesContent(local, remote, rorder, k + 1, added,
                                           Append(modified, id))
            ELSE RemoteLoopComparesContent(local, remote, rorder, k + 1, added,
                                           modified)

\* RemoteLoop comparing the fingerprints and the timestamps.
RECURSIVE RemoteLoopComparesTimestamp(_, _, _, _, _, _)
RemoteLoopComparesTimestamp(local, remote, rorder, k, added, modified) ==
    IF k > Len(rorder) THEN <<added, modified>>
    ELSE LET id == rorder[k]
         IN IF id \notin DOMAIN local
            THEN RemoteLoopComparesTimestamp(local, remote, rorder, k + 1,
                                             Append(added, id), modified)
            ELSE IF \/ local[id].hash # remote[id].hash
                    \/ local[id].timestamp # remote[id].timestamp
            THEN RemoteLoopComparesTimestamp(local, remote, rorder, k + 1, added,
                                             Append(modified, id))
            ELSE RemoteLoopComparesTimestamp(local, remote, rorder, k + 1, added,
                                             modified)

\* The loop over remoteMessages: <<added, modified>> when it ends.
RECURSIVE RemoteLoop(_, _, _, _, _, _)
RemoteLoop(local, remote, rorder, k, added, modified) ==
    IF k > Len(rorder) THEN <<added, modified>>
    ELSE LET id == rorder[k]
         IN IF id \notin DOMAIN local
            THEN RemoteLoop(local, remote, rorder, k + 1, Append(added, id), modified)
            ELSE IF local[id].hash # remote[id].hash
            THEN RemoteLoop(local, remote, rorder, k + 1, added, Append(modified, id))
            ELSE RemoteLoop(local, remote, rorder, k + 1, added, modified)

\* LocalLoop looking the id up in localMessages, where it always is: nothing
\* is ever pushed.
RECURSIVE LocalLoopFindsLocal(_, _, _, _)
LocalLoopFindsLocal(remote, lorder, k, deleted) ==
    IF k > Len(lorder) THEN deleted
    ELSE LocalLoopFindsLocal(remote, lorder, k + 1, deleted)

\* The loop over localMessages: deleted when it ends.
RECURSIVE LocalLoop(_, _, _, _)
LocalLoop(remote, lorder, k, deleted) ==
    IF k > Len(lorder) THEN deleted
    ELSE LET id == lorder[k]
         IN IF id \notin DOMAIN remote
            THEN LocalLoop(remote, lorder, k + 1, Append(deleted, id))
            ELSE LocalLoop(remote, lorder, k + 1, deleted)

calculateDiff(local, remote, rorder, lorder) ==
    LET am == RemoteLoop(local, remote, rorder, 1, <<>>, <<>>)
    IN [added    |-> am[1],
        modified |-> am[2],
        deleted  |-> LocalLoop(remote, lorder, 1, <<>>)]

(***************************************************************************)
(* generateDelta: "pos:del:ins" from the common prefix and the common      *)
(* suffix of the local (old) and the remote (new) content.                 *)
(***************************************************************************)
\* The prefix loop stopping one character early: the last character of the
\* shorter string is never compared.
RECURSIVE CommonPrefixShort(_, _, _)
CommonPrefixShort(oldContent, newContent, i) ==
    IF /\ i + 1 < Len(oldContent)
       /\ i + 1 < Len(newContent)
       /\ oldContent[i + 1] = newContent[i + 1]
    THEN CommonPrefixShort(oldContent, newContent, i + 1)
    ELSE i

RECURSIVE CommonPrefix(_, _, _)
CommonPrefix(oldContent, newContent, i) ==
    IF /\ i < Len(oldContent)
       /\ i < Len(newContent)
       /\ oldContent[i + 1] = newContent[i + 1]
    THEN CommonPrefix(oldContent, newContent, i + 1)
    ELSE i

\* The suffix loop without its bound at the prefix: the suffix may run into
\* the characters the prefix has taken.
RECURSIVE CommonSuffixOverlapping(_, _, _, _, _)
CommonSuffixOverlapping(oldContent, newContent, i, oldEnd, newEnd) ==
    IF /\ oldEnd > 0
       /\ newEnd > 0
       /\ oldContent[oldEnd] = newContent[newEnd]
    THEN CommonSuffixOverlapping(oldContent, newContent, i, oldEnd - 1, newEnd - 1)
    ELSE <<oldEnd, newEnd>>

\* The suffix loop with newEnd > i left out of its condition: only the old
\* content is guarded against the prefix.
RECURSIVE CommonSuffixBoundedByOld(_, _, _, _, _)
CommonSuffixBoundedByOld(oldContent, newContent, i, oldEnd, newEnd) ==
    IF /\ oldEnd > i
       /\ newEnd > 0
       /\ oldContent[oldEnd] = newContent[newEnd]
    THEN CommonSuffixBoundedByOld(oldContent, newContent, i, oldEnd - 1, newEnd - 1)
    ELSE <<oldEnd, newEnd>>

\* The suffix loop: <<oldEnd, newEnd>> when it stops.
RECURSIVE CommonSuffix(_, _, _, _, _)
CommonSuffix(oldContent, newContent, i, oldEnd, newEnd) ==
    IF /\ oldEnd > i
       /\ newEnd > i
       /\ oldContent[oldEnd] = newContent[newEnd]
    THEN CommonSuffix(oldContent, newContent, i, oldEnd - 1, newEnd - 1)
    ELSE <<oldEnd, newEnd>>

\* newContent.substr(pos, count) for pos <= size
Substr(s, pos, count) ==
    SubSeq(s, pos + 1, IF pos + count > Len(s) THEN Len(s) ELSE pos + count)

\* EncodeDelta answering an unchanged content with the empty string.
EncodeDeltaEmptyWhenEqual(oldContent, newContent) ==
    LET i    == CommonPrefix(oldContent, newContent, 0)
        ends == CommonSuffix(oldContent, newContent, i,
                             Len(oldContent), Len(newContent))
    IN IF oldContent = newContent THEN <<>>
       ELSE to_string(i) \o <<Colon>> \o to_string(ends[1] - i) \o <<Colon>>
                \o Substr(newContent, i, ends[2] - i)

\* EncodeDelta without the two scans: the whole old content is deleted and
\* the whole new content inserted.
EncodeDeltaWholeReplace(oldContent, newContent) ==
    to_string(0) \o <<Colon>> \o to_string(Len(oldContent)) \o <<Colon>>
        \o newContent

EncodeDelta(oldContent, newContent) ==
    LET i    == CommonPrefix(oldContent, newContent, 0)
        ends == CommonSuffix(oldContent, newContent, i,
                             Len(oldContent), Len(newContent))
    IN to_string(i) \o <<Colon>> \o to_string(ends[1] - i) \o <<Colon>>
           \o Substr(newContent, i, ends[2] - i)

\* generateDelta with the two contents exchanged: the delta from the remote
\* content to the local one.
generateDeltaReversed(local, remote, id) ==
    IF id \notin DOMAIN local \/ id \notin DOMAIN remote
    THEN <<>>
    ELSE EncodeDelta(remote[id].content, local[id].content)

generateDelta(local, remote, id) ==
    IF id \notin DOMAIN local \/ id \notin DOMAIN remote
    THEN <<>>
    ELSE EncodeDelta(local[id].content, remote[id].content)

(***************************************************************************)
(* applyDelta.  Positions are 0-based as in the code; Npos stands for      *)
(* std::string::npos, so that Npos + 1 is 0 as it is for size_t.           *)
(***************************************************************************)
Npos == -1

\* s.find(ch, from)
RECURSIVE Find(_, _, _)
Find(s, ch, from) ==
    IF from >= Len(s) THEN Npos
    ELSE IF s[from + 1] = ch THEN from
    ELSE Find(s, ch, from + 1)

IntMax == 2147483647

IsSpace(c) == c \in {9, 10, 11, 12, 13, 32}
IsDigit(c) == c \in 48..57

\* 1-based index of the first character at or after k that is no white space
RECURSIVE SkipSpace(_, _)
SkipSpace(s, k) ==
    IF k <= Len(s) /\ IsSpace(s[k]) THEN SkipSpace(s, k + 1) ELSE k

\* 1-based index of the first character at or after k that is no digit
RECURSIVE DigitsEnd(_, _)
DigitsEnd(s, k) ==
    IF k <= Len(s) /\ IsDigit(s[k]) THEN DigitsEnd(s, k + 1) ELSE k

\* The number written by the digits s[k..last]: its value when at most IntMax,
\* -1 when exactly IntMax + 1, -2 when larger.
RECURSIVE Magnitude(_, _, _, _)
Magnitude(s, k, last, acc) ==
    IF k > last THEN acc
    ELSE LET d == s[k] - 48
         IN IF acc = -2 \/ acc = -1 THEN -2
            ELSE IF acc < IntMax \div 10 \/ (acc = IntMax \div 10 /\ d <= IntMax % 10)
            THEN Magnitude(s, k + 1, last, acc * 10 + d)
            ELSE IF acc = IntMax \div 10 /\ d = (IntMax % 10) + 1
            THEN Magnitude(s, k + 1, last, -1)
            ELSE -2

\* std::stoi: white space, an optional sign, digits; what follows is ignored.
stoi(s) ==
    LET k      == SkipSpace(s, 1)
        signed == k <= Len(s) /\ s[k] \in {43, 45}
        neg    == k <= Len(s) /\ s[k] = 45
        first  == IF signed THEN k + 1 ELSE k
        after  == DigitsEnd(s, first)
        mag    == Magnitude(s, first, after - 1, 0)
    IN IF after = first THEN [threw |-> TRUE, what |-> "invalid_argument"]
       ELSE IF mag = -2 \/ (mag = -1 /\ ~neg)
       THEN [threw |-> TRUE, what |-> "out_of_range"]
       ELSE IF mag = -1 THEN [threw |-> FALSE, value |-> (0 - IntMax) - 1]
       ELSE [threw |-> FALSE, value |-> IF neg THEN 0 - mag ELSE mag]

\* content.substr(pos) written for content.substr(0, pos): what follows the
\* position instead of what precedes it.
PrefixFromPos(content, count) ==
    IF count < 0 \/ count > Len(content) THEN <<>>
    ELSE SubSeq(content, count + 1, Len(content))

\* content.substr(0, count) for an int count: a negative int converts to a
\* size_t beyond every length, and substr takes what there is.
Prefix(content, count) ==
    IF count < 0 \/ count > Len(content) THEN content ELSE SubSeq(content, 1, count)

\* pos + delCount < content.length(), the int sum converted to size_t
TailInBounds(content, sum) == sum >= 0 /\ sum < Len(content)

\* applyDelta with && for || in its guard: a delta with one ':' goes on, the
\* second field running to the end of the delta (its count is npos minus a
\* position) and the insertion being delta.substr(npos + 1), the whole delta.
applyDeltaAndGuard(content, delta) ==
    LET firstColon  == Find(delta, Colon, 0)
        secondColon == Find(delta, Colon, firstColon + 1)
    IN IF firstColon = Npos /\ secondColon = Npos
       THEN [threw |-> FALSE, value |-> content]
       ELSE LET pos       == stoi(Substr(delta, 0, firstColon))
                delCount  == stoi(Substr(delta, firstColon + 1,
                                         IF secondColon = Npos THEN Len(delta)
                                         ELSE secondColon - firstColon - 1))
                insertion == Substr(delta, secondColon + 1, Len(delta))
            IN IF pos.threw THEN pos
               ELSE IF delCount.threw THEN delCount
               ELSE LET result == Prefix(content, pos.value) \o insertion
                        sum    == pos.value + delCount.value
                    IN [threw |-> FALSE,
                        value |-> IF TailInBounds(content, sum)
                                  THEN result \o Substr(content, sum, Len(content))
                                  ELSE result]

\* s.rfind(ch)
RECURSIVE RFind(_, _, _)
RFind(s, ch, from) ==
    IF from < 0 THEN Npos
    ELSE IF s[from + 1] = ch THEN from
    ELSE RFind(s, ch, from - 1)

\* applyDelta taking the last ':' of the delta as the second one: a ':' in
\* the inserted text moves the split.
applyDeltaLastColon(content, delta) ==
    LET firstColon  == Find(delta, Colon, 0)
        secondColon == RFind(delta, Colon, Len(delta) - 1)
    IN IF firstColon = Npos \/ secondColon = Npos
       THEN [threw |-> FALSE, value |-> content]
       ELSE LET pos       == stoi(Substr(delta, 0, firstColon))
                delCount  == stoi(Substr(delta, firstColon + 1,
                                         secondColon - firstColon - 1))
                insertion == Substr(delta, secondColon + 1, Len(delta))
            IN IF pos.threw THEN pos
               ELSE IF delCount.threw THEN delCount
               ELSE LET result == Prefix(content, pos.value) \o insertion
                        sum    == pos.value + delCount.value
                    IN [threw |-> FALSE,
                        value |-> IF TailInBounds(content, sum)
                                  THEN result \o Substr(content, sum, Len(content))
                                  ELSE result]

applyDelta(content, delta) ==
    LET firstColon  == Find(delta, Colon, 0)
        secondColon == Find(delta, Colon, firstColon + 1)
    IN IF firstColon = Npos \/ secondColon = Npos
       THEN [threw |-> FALSE, value |-> content]
       ELSE LET pos       == stoi(Substr(delta, 0, firstColon))
                delCount  == stoi(Substr(delta, firstColon + 1,
                                         secondColon - firstColon - 1))
                insertion == Substr(delta, secondColon + 1, Len(delta))
            IN IF pos.threw THEN pos
               ELSE IF delCount.threw THEN delCount
               ELSE LET result == Prefix(content, pos.value) \o insertion
                        sum    == pos.value + delCount.value
                    IN [threw |-> FALSE,
                        value |-> IF TailInBounds(content, sum)
                                  THEN result \o Substr(content, sum, Len(content))
                                  ELSE result]

(***************************************************************************)
(* resolveConflict.  The guard compares remoteIt with localMessages.end(): *)
(* an iterator to a record of remoteMessages is never that; whether        *)
(* remoteMessages.end() is equal to localMessages.end() is not defined     *)
(* (endsEqual), and when it is not, remoteIt->second reads past the store  *)
(* (garbage stands for what is read there).                                *)
(***************************************************************************)
\* resolveConflict with >= for >: remote wins a tie.
resolveConflictTieRemote(local, remote, id, endsEqual, garbage) ==
    LET localAtEnd       == id \notin DOMAIN local
        remoteAtLocalEnd == IF id \in DOMAIN remote THEN FALSE ELSE endsEqual
    IN IF localAtEnd \/ remoteAtLocalEnd
       THEN [resolved |-> FALSE, readPastEnd |-> FALSE]
       ELSE LET remoteMsg == IF id \in DOMAIN remote THEN remote[id] ELSE garbage
                useRemote == remoteMsg.timestamp >= local[id].timestamp
            IN [resolved    |-> TRUE,
                useRemote   |-> useRemote,
                winner      |-> IF useRemote THEN remoteMsg.content
                                ELSE local[id].content,
                readPastEnd |-> id \notin DOMAIN remote]

resolveConflict(local, remote, id, endsEqual, garbage) ==
    LET localAtEnd       == id \notin DOMAIN local
        remoteAtLocalEnd == IF id \in DOMAIN remote THEN FALSE ELSE endsEqual
    IN IF localAtEnd \/ remoteAtLocalEnd
       THEN [resolved |-> FALSE, readPastEnd |-> FALSE]
       ELSE LET remoteMsg == IF id \in DOMAIN remote THEN remote[id] ELSE garbage
                useRemote == remoteMsg.timestamp > local[id].timestamp
            IN [resolved    |-> TRUE,
                useRemote   |-> useRemote,
                winner      |-> IF useRemote THEN remoteMsg.content
                                ELSE local[id].content,
                readPastEnd |-> id \notin DOMAIN remote]

(***************************************************************************)
(* getStats                                                                *)
(***************************************************************************)
\* getStats counting the ids whose contents differ.
getStatsComparesContent(local, remote) ==
    [localCount  |-> Cardinality(DOMAIN local),
     remoteCount |-> Cardinality(DOMAIN remote),
     conflicts   |-> Cardinality({id \in DOMAIN local :
                                     /\ id \in DOMAIN remote
                                     /\ local[id].content # remote[id].content})]

\* getStats with the two sizes exchanged.
getStatsCountsSwapped(local, remote) ==
    [localCount  |-> Cardinality(DOMAIN remote),
     remoteCount |-> Cardinality(DOMAIN local),
     conflicts   |-> Cardinality({id \in DOMAIN local :
                                     /\ id \in DOMAIN remote
                                     /\ local[id].hash # remote[id].hash})]

getStats(local, remote) ==
    [localCount  |-> Cardinality(DOMAIN local),
     remoteCount |-> Cardinality(DOMAIN remote),
     conflicts   |-> Cardinality({id \in DOMAIN local :
                                     /\ id \in DOMAIN remote
                                     /\ local[id].hash # remote[id].hash})]

(***************************************************************************)
(* The operations of the engine.                                           *)
(***************************************************************************)
Init ==
    /\ localMessages = EmptyStore
    /\ remoteMessages = EmptyStore
    /\ ret = [op |-> "constructor"]
    /\ lastDiff = NoDiff
    /\ passedIds = NoIds

\* addLocalMessage keeping the fingerprint of the record it replaces.
AddLocalMessageStaleHash(id, content, timestamp) ==
    /\ localMessages' =
           Put(localMessages, id,
               [id |-> id, content |-> content, timestamp |-> timestamp,
                hash |-> IF id \in DOMAIN localMessages
                         THEN localMessages[id].hash
                         ELSE hashMessage(content)])
    /\ ret' = [op |-> "addLocalMessage", id |-> id, content |-> content,
               timestamp |-> timestamp,
               replaced |-> id \in DOMAIN localMessages]
    /\ lastDiff' = NoDiff
    /\ passedIds' = [passedIds EXCEPT !.local = @ \cup {id}]
    /\ UNCHANGED remoteMessages

AddLocalMessage(id, content, timestamp) ==
    /\ localMessages' = Put(localMessages, id, Message(id, content, timestamp))
    /\ ret' = [op |-> "addLocalMessage", id |-> id, content |-> content,
               timestamp |-> timestamp,
               replaced |-> id \in DOMAIN localMessages]
    /\ lastDiff' = NoDiff
    /\ passedIds' = [passedIds EXCEPT !.local = @ \cup {id}]
    /\ UNCHANGED remoteMessages

\* addRemoteMessage ending in localMessages[id] = msg, as addLocalMessage
\* does.
AddRemoteMessageIntoLocal(id, content, timestamp) ==
    /\ localMessages' = Put(localMessages, id, Message(id, content, timestamp))
    /\ ret' = [op |-> "addRemoteMessage", id |-> id, content |-> content,
               timestamp |-> timestamp,
               replaced |-> id \in DOMAIN remoteMessages]
    /\ lastDiff' = NoDiff
    /\ passedIds' = [passedIds EXCEPT !.remote = @ \cup {id}]
    /\ UNCHANGED remoteMessages

AddRemoteMessage(id, content, timestamp) ==
    /\ remoteMessages' = Put(remoteMessages, id, Message(id, content, timestamp))
    /\ ret' = [op |-> "addRemoteMessage", id |-> id, content |-> content,
               timestamp |-> timestamp,
               replaced |-> id \in DOMAIN remoteMessages]
    /\ lastDiff' = NoDiff
    /\ passedIds' = [passedIds EXCEPT !.remote = @ \cup {id}]
    /\ UNCHANGED localMessages

\* calculateDiff erasing from localMessages the ids it reports as deleted.
CalculateDiffErasingDeleted(rorder, lorder) ==
    LET diff == calculateDiff(localMessages, remoteMessages, rorder, lorder)
    IN /\ ret' = [op |-> "calculateDiff", diff |-> diff]
       /\ lastDiff' = [taken    |-> TRUE,
                       repeated |-> lastDiff.taken,
                       added    |-> Range(diff.added),
                       modified |-> Range(diff.modified),
                       deleted  |-> Range(diff.deleted)]
       /\ localMessages' =
              [k \in (DOMAIN localMessages) \ Range(diff.deleted) |-> localMessages[k]]
       /\ UNCHANGED <<remoteMessages, passedIds>>

CalculateDiff(rorder, lorder) ==
    LET diff == calculateDiff(localMessages, remoteMessages, rorder, lorder)
    IN /\ ret' = [op |-> "calculateDiff", diff |-> diff]
       /\ lastDiff' = [taken    |-> TRUE,
                       repeated |-> lastDiff.taken,
                       added    |-> Range(diff.added),
                       modified |-> Range(diff.modified),
                       deleted  |-> Range(diff.deleted)]
       /\ UNCHANGED <<localMessages, remoteMessages, passedIds>>

\* generateDelta looking the id up with localMessages[id], which inserts an
\* empty Message for an id the store lacks.
GenerateDeltaInserting(id) ==
    /\ ret' = [op |-> "generateDelta", id |-> id,
               delta |-> generateDelta(localMessages, remoteMessages, id)]
    /\ localMessages' =
           IF id \in DOMAIN localMessages THEN localMessages
           ELSE Put(localMessages, id,
                    [id |-> 0, content |-> <<>>, timestamp |-> 0, hash |-> <<>>])
    /\ UNCHANGED <<remoteMessages, lastDiff, passedIds>>

GenerateDelta(id) ==
    /\ ret' = [op |-> "generateDelta", id |-> id,
               delta |-> generateDelta(localMessages, remoteMessages, id)]
    /\ UNCHANGED <<localMessages, remoteMessages, lastDiff, passedIds>>

ApplyDelta(content, delta) ==
    /\ ret' = [op |-> "applyDelta", content |-> content, delta |-> delta,
               result |-> applyDelta(content, delta)]
    /\ UNCHANGED <<localMessages, remoteMessages, lastDiff, passedIds>>

\* What a read past the end of remoteMessages may find.
Garbage == {Message(0, w[1], w[2]) : w \in RemoteWrites}

\* resolveConflict looking the id up with remoteMessages[id], which inserts
\* an empty Message for an id the store lacks.
ResolveConflictInserting(id) ==
    /\ ret' = [op |-> "resolveConflict", id |-> id,
               result |-> [resolved |-> FALSE, readPastEnd |-> FALSE]]
    /\ remoteMessages' =
           IF id \in DOMAIN remoteMessages THEN remoteMessages
           ELSE Put(remoteMessages, id,
                    [id |-> 0, content |-> <<>>, timestamp |-> 0, hash |-> <<>>])
    /\ UNCHANGED <<localMessages, lastDiff, passedIds>>

\* The undefined comparison and the read past the end have an outcome to
\* choose only when id is held by localMessages and not by remoteMessages.
ResolveConflict(id) ==
    LET undefined == id \in DOMAIN localMessages /\ id \notin DOMAIN remoteMessages
    IN /\ \E endsEqual \in (IF undefined THEN BOOLEAN ELSE {TRUE}),
             garbage \in (IF undefined THEN Garbage ELSE {Message(0, <<>>, 0)}) :
              ret' = [op |-> "resolveConflict", id |-> id,
                      result |-> resolveConflict(localMessages, remoteMessages,
                                                 id, endsEqual, garbage)]
       /\ UNCHANGED <<localMessages, remoteMessages, lastDiff, passedIds>>

GetStats ==
    /\ ret' = [op |-> "getStats",
               stats |-> getStats(localMessages, remoteMessages),
               afterReadd |-> /\ ret.op \in {"addLocalMessage", "addRemoteMessage"}
                              /\ ret.replaced]
    /\ UNCHANGED <<localMessages, remoteMessages, lastDiff, passedIds>>

\* clear without remoteMessages.clear(): the remote store keeps its records.
ClearLocalOnly ==
    /\ localMessages' = EmptyStore
    /\ remoteMessages' = remoteMessages
    /\ ret' = [op |-> "clear",
               removed |-> Cardinality(DOMAIN localMessages)
                               + Cardinality(DOMAIN remoteMessages)]
    /\ lastDiff' = NoDiff
    /\ passedIds' = NoIds

Clear ==
    /\ localMessages' = EmptyStore
    /\ remoteMessages' = EmptyStore
    /\ ret' = [op |-> "clear",
               removed |-> Cardinality(DOMAIN localMessages)
                               + Cardinality(DOMAIN remoteMessages)]
    /\ lastDiff' = NoDiff
    /\ passedIds' = NoIds

\* The caller applies the delta it was just given to a content it holds.
ApplyGenerated ==
    /\ ret.op = "generateDelta"
    /\ \E id \in DOMAIN localMessages :
           ApplyDelta(localMessages[id].content, ret.delta)

Next ==
    \/ \E id \in Ids, w \in LocalWrites : AddLocalMessage(id, w[1], w[2])
    \/ \E id \in Ids, w \in RemoteWrites : AddRemoteMessage(id, w[1], w[2])
    \/ \E rorder \in Orders(DOMAIN remoteMessages),
          lorder \in Orders(DOMAIN localMessages) :
           CalculateDiff(rorder, lorder)
    \/ \E id \in Ids : GenerateDelta(id)
    \/ ApplyGenerated
    \/ \E id \in Ids : ResolveConflict(id)
    \/ GetStats
    \/ Clear

Spec == Init /\ [][Next]_vars

(***************************************************************************)
(* The codec on its own: one id held by both stores, the local (old) and   *)
(* the remote (new) content being any two strings of CodecStrings; the     *)
(* caller asks for the delta and applies it to the old content.            *)
(***************************************************************************)
InitCodec ==
    /\ \E oldContent \in CodecStrings, newContent \in CodecStrings :
           /\ localMessages = Put(EmptyStore, 1, Message(1, oldContent, 100))
           /\ remoteMessages = Put(EmptyStore, 1, Message(1, newContent, 100))
           /\ ret = [op |-> "addRemoteMessage", id |-> 1, content |-> newContent,
                     timestamp |-> 100, replaced |-> FALSE]
    /\ lastDiff = NoDiff
    /\ passedIds = [local |-> {1}, remote |-> {1}]

NextCodec ==
    \/ GenerateDelta(1)
    \/ ApplyGenerated

SpecCodec == InitCodec /\ [][NextCodec]_vars

(***************************************************************************)
(* applyDelta on its own: on a new engine the caller passes any content of *)
(* at most MaxLen characters over 'a' and 'b' and, as the delta, any       *)
(* string of at most MaxDeltaLen characters over 'a', ':', '0', '1', '-'.  *)
(***************************************************************************)
MaxDeltaLen == 5

ApplyContents == UNION {[1..n -> {97, 98}] : n \in 0..MaxLen}

DeltaAlphabet == {97, 58, 48, 49, 45}

DeltaStrings == UNION {[1..n -> DeltaAlphabet] : n \in 0..MaxDeltaLen}

NextApply ==
    /\ ret.op = "constructor"
    /\ \E content \in ApplyContents, delta \in DeltaStrings :
           ApplyDelta(content, delta)

SpecApply == Init /\ [][NextApply]_vars

(***************************************************************************)
(* applyDelta on deltas of two numbers: on a new engine the caller passes  *)
(* "P:D:ins" with P and D written as decimal integers, small ones of       *)
(* either sign and the two nearest to the range of int from outside.  No   *)
(* two of the fields that std::stoi accepts add up to a sum beyond int, so *)
(* pos + delCount is defined for every delta drawn here.                   *)
(***************************************************************************)
\* "0", "1", "4", "-1", "2147483648", "-2147483649"
IntFields ==
    {<<48>>, <<49>>, <<52>>, <<45, 49>>,
     <<50, 49, 52, 55, 52, 56, 51, 54, 52, 56>>,
     <<45, 50, 49, 52, 55, 52, 56, 51, 54, 52, 57>>}

NumericDeltas ==
    {p \o <<Colon>> \o d \o <<Colon>> \o ins :
        p \in IntFields, d \in IntFields, ins \in {<<>>, <<97>>}}

NextNumeric ==
    /\ ret.op = "constructor"
    /\ \E content \in ApplyContents, delta \in NumericDeltas :
           ApplyDelta(content, delta)

SpecNumeric == Init /\ [][NextNumeric]_vars

(***************************************************************************)
(* The sync a caller runs: it loads the two stores, takes the diff, and    *)
(* then works through it, storing in local the remote content of an id of  *)
(* added and, for an id of modified, the local content with the generated  *)
(* delta applied; it may take the diff again at any point.  While the      *)
(* stores change, lastDiff keeps as todo the diff last taken less the ids  *)
(* worked through since, and as pulled and patched those ids.              *)
(***************************************************************************)
NoTodo == [added |-> {}, modified |-> {}, deleted |-> {}, pulled |-> {}, patched |-> {}]

Todo ==
    IF lastDiff.taken
    THEN [added |-> lastDiff.added, modified |-> lastDiff.modified,
          deleted |-> lastDiff.deleted, pulled |-> {}, patched |-> {}]
    ELSE IF "todo" \in DOMAIN lastDiff THEN lastDiff.todo
    ELSE NoTodo

Loading == ret.op \in {"constructor", "addLocalMessage", "addRemoteMessage"}
               /\ lastDiff = NoDiff

\* addLocalMessage(id, content of remoteMessages[id], timestamp)
PullAdded(id, timestamp) ==
    /\ id \in Todo.added
    /\ localMessages' =
           Put(localMessages, id, Message(id, remoteMessages[id].content, timestamp))
    /\ ret' = [op |-> "addLocalMessage", id |-> id,
               content |-> remoteMessages[id].content, timestamp |-> timestamp,
               replaced |-> id \in DOMAIN localMessages]
    /\ lastDiff' = [taken |-> FALSE,
                    todo  |-> [Todo EXCEPT !.added = @ \ {id},
                                           !.pulled = @ \cup {id}]]
    /\ passedIds' = [passedIds EXCEPT !.local = @ \cup {id}]
    /\ UNCHANGED remoteMessages

\* addLocalMessage(id, applyDelta(local content, generateDelta(id)), timestamp);
\* when applyDelta throws, nothing is stored.
PatchModified(id, timestamp) ==
    /\ id \in Todo.modified
    /\ LET delta   == generateDelta(localMessages, remoteMessages, id)
           patched == applyDelta(localMessages[id].content, delta)
       IN IF patched.threw
          THEN /\ ret' = [op |-> "applyDelta",
                          content |-> localMessages[id].content,
                          delta |-> delta, result |-> patched]
               /\ UNCHANGED <<localMessages, remoteMessages, lastDiff, passedIds>>
          ELSE /\ localMessages' =
                      Put(localMessages, id, Message(id, patched.value, timestamp))
               /\ ret' = [op |-> "addLocalMessage", id |-> id,
                          content |-> patched.value, timestamp |-> timestamp,
                          replaced |-> id \in DOMAIN localMessages]
               /\ lastDiff' = [taken |-> FALSE,
                               todo  |-> [Todo EXCEPT !.modified = @ \ {id},
                                                      !.patched = @ \cup {id}]]
               /\ passedIds' = [passedIds EXCEPT !.local = @ \cup {id}]
               /\ UNCHANGED remoteMessages

NextSync ==
    \/ Loading /\ \E id \in Ids, w \in LocalWrites : AddLocalMessage(id, w[1], w[2])
    \/ Loading /\ \E id \in Ids, w \in RemoteWrites : AddRemoteMessage(id, w[1], w[2])
    \/ \E rorder \in Orders(DOMAIN remoteMessages),
          lorder \in Orders(DOMAIN localMessages) :
           CalculateDiff(rorder, lorder)
    \/ \E id \in Ids, timestamp \in Timestamps : PullAdded(id, timestamp)
    \/ \E id \in Ids, timestamp \in Timestamps : PatchModified(id, timestamp)

SpecSync == Init /\ [][NextSync]_vars

(***************************************************************************)
(* hashMessage on any bytes: on a new engine the caller adds one message   *)
(* whose content is any string of at most MaxLen bytes over 0, 'a', 128    *)
(* and 255.                                                                *)
(***************************************************************************)
HashAlphabet == {0, 97, 128, 255}

HashContents == UNION {[1..n -> HashAlphabet] : n \in 0..MaxLen}

NextHash ==
    /\ ret.op = "constructor"
    /\ \E id \in Ids, content \in HashContents : AddLocalMessage(id, content, 100)

SpecHash == Init /\ [][NextHash]_vars

(***************************************************************************)
(* The cipher of CryptoEngine (src/wasm/encryption.cpp).  A byte vector is *)
(* a sequence of values of 0..255; positions are 0-based in the comments   *)
(* as in the code.  The engine's only field, rng, is not read by           *)
(* encryptAES and decryptAES and is left out.                              *)
(***************************************************************************)
MaxBlocks == 3

BlockSize == 16

Rounds == 10

sbox ==
    << 99, 124, 119, 123, 242, 107, 111, 197,  48,   1, 103,  43, 254, 215, 171, 118,
      202, 130, 201, 125, 250,  89,  71, 240, 173, 212, 162, 175, 156, 164, 114, 192,
      183, 253, 147,  38,  54,  63, 247, 204,  52, 165, 229, 241, 113, 216,  49,  21,
        4, 199,  35, 195,  24, 150,   5, 154,   7,  18, 128, 226, 235,  39, 178, 117,
        9, 131,  44,  26,  27, 110,  90, 160,  82,  59, 214, 179,  41, 227,  47, 132,
       83, 209,   0, 237,  32, 252, 177,  91, 106, 203, 190,  57,  74,  76,  88, 207,
      208, 239, 170, 251,  67,  77,  51, 133,  69, 249,   2, 127,  80,  60, 159, 168,
       81, 163,  64, 143, 146, 157,  56, 245, 188, 182, 218,  33,  16, 255, 243, 210,
      205,  12,  19, 236,  95, 151,  68,  23, 196, 167, 126,  61, 100,  93,  25, 115,
       96, 129,  79, 220,  34,  42, 144, 136,  70, 238, 184,  20, 222,  94,  11, 219,
      224,  50,  58,  10,  73,   6,  36,  92, 194, 211, 172,  98, 145, 149, 228, 121,
      231, 200,  55, 109, 141, 213,  78, 169, 108,  86, 244, 234, 101, 122, 174,   8,
      186, 120,  37,  46,  28, 166, 180, 198, 232, 221, 116,  31,  75, 189, 139, 138,
      112,  62, 181, 102,  72,   3, 246,  14,  97,  53,  87, 185, 134, 193,  29, 158,
      225, 248, 152,  17, 105, 217, 142, 148, 155,  30, 135, 233, 206,  85,  40, 223,
      140, 161, 137,  13, 191, 230,  66, 104,  65, 153,  45,  15, 176,  84, 187,  22>>

inv_sbox ==
    << 82,   9, 106, 213,  48,  54, 165,  56, 191,  64, 163, 158, 129, 243, 215, 251,
      124, 227,  57, 130, 155,  47, 255, 135,  52, 142,  67,  68, 196, 222, 233, 203,
       84, 123, 148,  50, 166, 194,  35,  61, 238,  76, 149,  11,  66, 250, 195,  78,
        8,  46, 161, 102,  40, 217,  36, 178, 118,  91, 162,  73, 109, 139, 209,  37,
      114, 248, 246, 100, 134, 104, 152,  22, 212, 164,  92, 204,  93, 101, 182, 146,
      108, 112,  72,  80, 253, 237, 185, 218,  94,  21,  70,  87, 167, 141, 157, 132,
      144, 216, 171,   0, 140, 188, 211,  10, 247, 228,  88,   5, 184, 179,  69,   6,
      208,  44,  30, 143, 202,  63,  15,   2, 193, 175, 189,   3,   1,  19, 138, 107,
       58, 145,  17,  65,  79, 103, 220, 234, 151, 242, 207, 206, 240, 180, 230, 115,
      150, 172, 116,  34, 231, 173,  53, 133, 226, 249,  55, 232,  28, 117, 223, 110,
       71, 241,  26, 113,  29,  41, 197, 137, 111, 183,  98,  14, 170,  24, 190,  27,
      252,  86,  62,  75, 198, 210, 121,  32, 154, 219, 192, 254, 120, 205,  90, 244,
       31, 221, 168,  51, 136,   7, 199,  49, 177,  18,  16,  89,  39, 128, 236,  95,
       96,  81, 127, 169,  25, 181,  74,  13,  45, 229, 122, 159, 147, 201, 156, 239,
      160, 224,  59,  77, 174,  42, 245, 176, 200, 235, 187,  60, 131,  83, 153,  97,
       23,  43,   4, 126, 186, 119, 214,  38, 225, 105,  20,  99,  85,  33,  12, 125>>

\* a ^ b on bytes
RECURSIVE Xor(_, _)
Xor(a, b) ==
    IF a = 0 THEN b
    ELSE IF b = 0 THEN a
    ELSE 2 * Xor(a \div 2, b \div 2) + ((a + b) % 2)

\* data[i] ^= key[i % key.size()]
xorBytes(data, key) ==
    [i \in 1..Len(data) |-> Xor(data[i], key[((i - 1) % Len(key)) + 1])]

\* shift % data.size(): the int shift is converted to size_t (32 bits), so a
\* negative shift is taken as 2^32 + shift before the remainder.
ShiftModSize(shift, size) ==
    IF shift >= 0 THEN shift % size
    ELSE (((HalfWord % size) * (HalfWord % size)) + (shift % size)) % size

\* std::rotate(begin, begin + shift, end): the element at shift comes first.
rotateBytes(data, shift) ==
    IF data = <<>> THEN data
    ELSE LET s == ShiftModSize(shift, Len(data))
         IN [i \in 1..Len(data) |-> data[((i - 1 + s) % Len(data)) + 1]]

substituteBytes(data, inverse) ==
    [i \in 1..Len(data) |-> IF inverse THEN inv_sbox[data[i] + 1] ELSE sbox[data[i] + 1]]

\* state[i] ^= key[(i + round * 16) % key.size()] for i below both sizes
addRoundKey(state, key, round) ==
    [i \in 1..Len(state) |->
        IF i <= Len(key)
        THEN Xor(state[i], key[((i - 1 + round * 16) % Len(key)) + 1])
        ELSE state[i]]

addPadding(data, blockSize) ==
    LET padding == blockSize - (Len(data) % blockSize)
    IN data \o [i \in 1..padding |-> padding]

removePadding(data) ==
    IF data = <<>> THEN data
    ELSE LET padding == data[Len(data)]
         IN IF padding > 0 /\ padding <= 16
            THEN SubSeq(data, 1, Len(data) - padding)
            ELSE data

\* The rounds round, round + 1, ..., 9 of encryptAES.
RECURSIVE EncryptRounds(_, _, _, _)
EncryptRounds(state, key, iv, round) ==
    IF round >= Rounds THEN state
    ELSE EncryptRounds(
             xorBytes(addRoundKey(rotateBytes(substituteBytes(state, FALSE),
                                              round + 1),
                                  key, round),
                      iv),
             key, iv, round + 1)

encryptAES(plaintext, key, iv) ==
    EncryptRounds(addPadding(plaintext, BlockSize), key, iv, 0)

\* The rounds round, round - 1, ..., 0 of decryptAES.
RECURSIVE DecryptRounds(_, _, _, _)
DecryptRounds(state, key, iv, round) ==
    IF round < 0 THEN state
    ELSE DecryptRounds(
             substituteBytes(rotateBytes(addRoundKey(xorBytes(state, iv), key, round),
                                         0 - (round + 1)),
                             TRUE),
             key, iv, round - 1)

decryptAES(ciphertext, key, iv) ==
    removePadding(DecryptRounds(ciphertext, key, iv, Rounds - 1))

\* What the callers encrypt: plaintexts of 0, 1 and 15 bytes more than a
\* whole number of blocks below MaxBlocks, the bytes counting up in steps of
\* 7 from 0, 1 or 200; keys of 1, 5 and 32 bytes; IVs of 3 and 16 bytes.
PlainLengths == {BlockSize * b + r : b \in 0..(MaxBlocks - 1), r \in {0, 1, 15}}

Plaintexts ==
    {[i \in 1..n |-> (a + 7 * i) % 256] : n \in PlainLengths, a \in {0, 1, 200}}

CipherKeys ==
    {<<0>>, <<1, 2, 3, 4, 255>>, [i \in 1..32 |-> (11 * i) % 256]}

CipherIVs == {<<128, 0, 77>>, [i \in 1..16 |-> (250 + i) % 256]}

\* CryptoEngine(): the sync stores are not part of this engine and stay empty.
InitCipher ==
    /\ localMessages = EmptyStore
    /\ remoteMessages = EmptyStore
    /\ ret = [op |-> "CryptoEngine"]
    /\ lastDiff = NoDiff
    /\ passedIds = NoIds

EncryptAES(plaintext, key, iv) ==
    /\ ret.op = "CryptoEngine"
    /\ ret' = [op |-> "encryptAES", plaintext |-> plaintext, key |-> key,
               iv |-> iv, result |-> encryptAES(plaintext, key, iv)]
    /\ UNCHANGED <<localMessages, remoteMessages, lastDiff, passedIds>>

\* The caller decrypts what it was just given, with the same key and IV.
DecryptAES ==
    /\ ret.op = "encryptAES"
    /\ ret' = [op |-> "decryptAES", plaintext |-> ret.plaintext, key |-> ret.key,
               iv |-> ret.iv, ciphertext |-> ret.result,
               result |-> decryptAES(ret.result, ret.key, ret.iv)]
    /\ UNCHANGED <<localMessages, remoteMessages, lastDiff, passedIds>>

NextCipher ==
    \/ \E plaintext \in Plaintexts, key \in CipherKeys, iv \in CipherIVs :
           EncryptAES(plaintext, key, iv)
    \/ DecryptAES

SpecCipher == InitCipher /\ [][NextCipher]_vars

(***************************************************************************)
(* Properties.                                                             *)
(***************************************************************************)
Both == (DOMAIN localMessages) \cap (DOMAIN remoteMessages)

NoDuplicates(s) == Cardinality(Range(s)) = Len(s)

\* C1 - Delta round trip: for every id held by both stores, applying to the
\* local content the delta generated for that id returns, without throwing,
\* the remote content.
DeltaRoundTrip ==
    \A id \in Both :
        (/\ ret.op = "applyDelta"
         /\ ret.content = localMessages[id].content
         /\ ret.delta = generateDelta(localMessages, remoteMessages, id))
        => ret.result = [threw |-> FALSE, value |-> remoteMessages[id].content]

\* C1 witness: a round trip between two non-empty contents that differ in
\* their first and in their last character (new replaces old completely).
DeltaRoundTripWitness ==
    /\ ret.op = "applyDelta"
    /\ 1 \in Both
    /\ LET old == localMessages[1].content
           new == remoteMessages[1].content
       IN /\ Len(old) > 1 /\ Len(new) > 0
          /\ old[1] # new[1]
          /\ old[Len(old)] # new[Len(new)]
          /\ ret.content = old
          /\ ret.result = [threw |-> FALSE, value |-> new]

\* C2 - Diff partition: the added, modified and deleted vectors returned by
\* calculateDiff are pairwise disjoint and none holds an id twice.
DiffDisjoint ==
    ret.op = "calculateDiff" =>
        LET d == ret.diff
        IN /\ Range(d.added) \cap Range(d.modified) = {}
           /\ Range(d.added) \cap Range(d.deleted) = {}
           /\ Range(d.modified) \cap Range(d.deleted) = {}
           /\ NoDuplicates(d.added)
           /\ NoDuplicates(d.modified)
           /\ NoDuplicates(d.deleted)

\* C2 witness: a diff with a modified id and a deleted id.
DiffDisjointWitness ==
    /\ ret.op = "calculateDiff"
    /\ ret.diff.modified # <<>>
    /\ ret.diff.deleted # <<>>

\* C3 - added is exactly the keys of remote that are no keys of local, and
\* deleted exactly the keys of local that are no keys of remote.
DiffAddedDeleted ==
    ret.op = "calculateDiff" =>
        /\ Range(ret.diff.added) = (DOMAIN remoteMessages) \ (DOMAIN localMessages)
        /\ Range(ret.diff.deleted) = (DOMAIN localMessages) \ (DOMAIN remoteMessages)

\* C3 witness: a diff with an added id and a deleted id.
DiffAddedDeletedWitness ==
    /\ ret.op = "calculateDiff"
    /\ ret.diff.added # <<>>
    /\ ret.diff.deleted # <<>>

\* C4 - modified is exactly the ids held by both stores whose stored
\* fingerprints differ; an id of both stores with equal fingerprints is in
\* none of the three vectors.
DiffModified ==
    ret.op = "calculateDiff" =>
        /\ Range(ret.diff.modified) =
               {id \in Both : localMessages[id].hash # remoteMessages[id].hash}
        /\ \A id \in Both :
               localMessages[id].hash = remoteMessages[id].hash
               => id \notin Range(ret.diff.added) \cup Range(ret.diff.modified)
                            \cup Range(ret.diff.deleted)

\* C4 witness: a diff over one id with differing and one id with equal
\* fingerprints.
DiffModifiedWitness ==
    /\ ret.op = "calculateDiff"
    /\ ret.diff.modified # <<>>
    /\ \E id \in Both : localMessages[id].hash = remoteMessages[id].hash

\* C5 as claimed - a remote id is in added or modified exactly when local has
\* no record for it or local's record differs from remote's record.
DiffCoversEveryDifference ==
    ret.op = "calculateDiff" =>
        Range(ret.diff.added) \cup Range(ret.diff.modified) =
            {id \in DOMAIN remoteMessages :
                \/ id \notin DOMAIN localMessages
                \/ localMessages[id] # remoteMessages[id]}

\* C5 as amended - a remote id is in added or modified exactly when local has
\* no record for it or the fingerprints of the two contents differ: records
\* that differ in timestamp only, or whose different contents have the same
\* fingerprint, are in neither vector.
DiffCoversFingerprintDifference ==
    ret.op = "calculateDiff" =>
        \A id \in DOMAIN remoteMessages :
            id \in Range(ret.diff.added) \cup Range(ret.diff.modified)
            <=> \/ id \notin DOMAIN localMessages
                \/ hashMessage(localMessages[id].content)
                       # hashMessage(remoteMessages[id].content)

\* C5 witness: a diff that reports nothing for an id whose two contents are
\* different strings.
DiffCoversFingerprintDifferenceWitness ==
    /\ ret.op = "calculateDiff"
    /\ \E id \in Both :
           /\ localMessages[id].content # remoteMessages[id].content
           /\ id \notin Range(ret.diff.added) \cup Range(ret.diff.modified)

\* C6 - Cross-consistency: the conflicts count of getStats is the number of
\* ids in the modified set calculateDiff returned for the same stores.
StatsMatchDiff ==
    (ret.op = "getStats" /\ lastDiff.taken)
    => ret.stats.conflicts = Cardinality(lastDiff.modified)

\* C6 witness: getStats after calculateDiff on stores that hold a modified id
\* and an id with equal fingerprints.
StatsMatchDiffWitness ==
    /\ ret.op = "getStats"
    /\ lastDiff.taken
    /\ ret.stats.conflicts > 0
    /\ Cardinality(Both) > ret.stats.conflicts

\* C7 - Idempotence: while the stores are not changed, every calculateDiff
\* returns the same three sets as the one before it, whatever queries ran
\* in between.
DiffIdempotent ==
    [][(lastDiff.taken /\ lastDiff'.taken)
       => /\ lastDiff'.added = lastDiff.added
          /\ lastDiff'.modified = lastDiff.modified
          /\ lastDiff'.deleted = lastDiff.deleted]_vars

\* C7 witness: a second calculateDiff on unchanged stores, with something
\* in two of the sets.
DiffIdempotentWitness ==
    /\ ret.op = "calculateDiff"
    /\ lastDiff.taken
    /\ lastDiff.repeated
    /\ lastDiff.added # {}
    /\ lastDiff.modified # {}

\* C8 - Fingerprint invariant: every record of either store has
\* hash = hashMessage(content) for the content it holds now.
FingerprintInvariant ==
    /\ \A id \in DOMAIN localMessages :
           localMessages[id].hash = hashMessage(localMessages[id].content)
    /\ \A id \in DOMAIN remoteMessages :
           remoteMessages[id].hash = hashMessage(remoteMessages[id].content)

\* C8 witness: addLocalMessage has replaced the record of an id, and the two
\* stores now hold different fingerprints for it.
FingerprintInvariantWitness ==
    /\ ret.op = "addLocalMessage"
    /\ ret.replaced
    /\ ret.id \in DOMAIN remoteMessages
    /\ localMessages[ret.id].hash # remoteMessages[ret.id].hash

\* C9 - Last write wins: for an id of both stores resolveConflict returns
\* resolved, useRemote exactly when the remote timestamp is the greater, and
\* as winner the remote content when useRemote and the local content
\* otherwise, so the local content on equal timestamps.
LastWriteWins ==
    (ret.op = "resolveConflict" /\ ret.id \in Both) =>
        LET l == localMessages[ret.id]
            r == remoteMessages[ret.id]
        IN /\ ret.result.resolved
           /\ ret.result.useRemote <=> r.timestamp > l.timestamp
           /\ ret.result.winner =
                  IF ret.result.useRemote THEN r.content ELSE l.content
           /\ r.timestamp = l.timestamp => ret.result.winner = l.content

\* C9 witness: a conflict between different contents with equal timestamps.
LastWriteWinsWitness ==
    /\ ret.op = "resolveConflict"
    /\ ret.id \in Both
    /\ localMessages[ret.id].timestamp = remoteMessages[ret.id].timestamp
    /\ localMessages[ret.id].content # remoteMessages[ret.id].content
    /\ ret.result.resolved

\* C10 - resolveConflict of an id missing from local or from remote returns
\* the unresolved result and reads no record of a store that lacks the id.
MissingIdUnresolved ==
    (/\ ret.op = "resolveConflict"
     /\ ret.id \notin Both)
    => /\ ~ret.result.resolved
       /\ ~ret.result.readPastEnd

QueryOps == {"calculateDiff", "generateDelta", "applyDelta", "resolveConflict",
             "getStats"}

\* C11 - Queries have no side effects: a call of calculateDiff, generateDelta,
\* applyDelta, resolveConflict or getStats leaves both stores as they were
\* (keys, contents, timestamps, fingerprints), whatever its argument.
QueriesLeaveStores ==
    [][ret'.op \in QueryOps
       => /\ localMessages' = localMessages
          /\ remoteMessages' = remoteMessages]_vars

\* C11 witness: resolveConflict has been called for an id that neither store
\* holds while the stores hold another id.
QueriesLeaveStoresWitness ==
    /\ ret.op = "resolveConflict"
    /\ ret.id \notin (DOMAIN localMessages) \cup (DOMAIN remoteMessages)
    /\ Both # {}

\* The number of ':' in a string.
Colons(s) == Cardinality({k \in DOMAIN s : s[k] = Colon})

\* C12 - generateDelta returns the empty string for an id that local, remote
\* or both lack, and for an id of both stores a non-empty string with at
\* least two ':'.
DeltaSentinel ==
    ret.op = "generateDelta" =>
        IF ret.id \in Both
        THEN ret.delta # <<>> /\ Colons(ret.delta) >= 2
        ELSE ret.delta = <<>>

\* C12 witness: the delta of an id whose two contents are the same non-empty
\* string.
DeltaSentinelWitness ==
    /\ ret.op = "generateDelta"
    /\ ret.id \in Both
    /\ localMessages[ret.id].content = remoteMessages[ret.id].content
    /\ localMessages[ret.id].content # <<>>
    /\ ret.delta # <<>>

\* The first and the second field of a delta with two ':'.
FirstField(delta) == Substr(delta, 0, Find(delta, Colon, 0))

SecondField(delta) ==
    LET firstColon == Find(delta, Colon, 0)
    IN Substr(delta, firstColon + 1,
              Find(delta, Colon, firstColon + 1) - firstColon - 1)

\* A field that is a number: digits, after an optional '-'.
NumericField(f) ==
    LET digits == IF f # <<>> /\ f[1] = 45 THEN Tail(f) ELSE f
    IN digits # <<>> /\ \A k \in DOMAIN digits : IsDigit(digits[k])

\* A delta that does not parse into two numeric fields and a remainder.
Malformed(delta) ==
    \/ Colons(delta) < 2
    \/ ~NumericField(FirstField(delta))
    \/ ~NumericField(SecondField(delta))

\* C13 - applyDelta never raises on malformed input: for a delta that does not
\* parse into two numeric fields and a remainder (an empty or non-numeric
\* first or second field included) it returns the content unchanged.
MalformedDeltaIsNoOp ==
    (ret.op = "applyDelta" /\ Malformed(ret.delta))
    => ret.result = [threw |-> FALSE, value |-> ret.content]

\* C14 - for a delta with no ':' or exactly one ':' (the empty delta
\* included) applyDelta returns the content unchanged.
FewColonsIsNoOp ==
    (ret.op = "applyDelta" /\ Colons(ret.delta) < 2)
    => ret.result = [threw |-> FALSE, value |-> ret.content]

\* C14 witness: a delta of two numbers around a single ':' applied to a
\* non-empty content.
FewColonsIsNoOpWitness ==
    /\ ret.op = "applyDelta"
    /\ Colons(ret.delta) = 1
    /\ Len(ret.delta) = 3
    /\ IsDigit(ret.delta[1]) /\ IsDigit(ret.delta[3])
    /\ ret.content # <<>>
    /\ ret.result = [threw |-> FALSE, value |-> ret.content]

\* A field of digits only, and the number it writes.
DigitsOnly(f) == f # <<>> /\ \A k \in DOMAIN f : IsDigit(f[k])

RECURSIVE Decimal(_)
Decimal(f) ==
    IF f = <<>> THEN 0 ELSE Decimal(SubSeq(f, 1, Len(f) - 1)) * 10 + (f[Len(f)] - 48)

\* What follows the second ':' of a delta.
Remainder(delta) ==
    SubSeq(delta, Find(delta, Colon, Find(delta, Colon, 0) + 1) + 2, Len(delta))

\* C15 - for a well-formed delta "P:D:ins" with 0 <= P <= len(content) and
\* D >= 0, applyDelta returns content[0:P] + ins + content[P+D:], the last
\* part being empty when P + D is not below len(content).
WellFormedDeltaApplied ==
    (/\ ret.op = "applyDelta"
     /\ Colons(ret.delta) >= 2
     /\ DigitsOnly(FirstField(ret.delta))
     /\ DigitsOnly(SecondField(ret.delta))
     /\ Decimal(FirstField(ret.delta)) <= Len(ret.content))
    => LET P == Decimal(FirstField(ret.delta))
           D == Decimal(SecondField(ret.delta))
       IN ret.result =
              [threw |-> FALSE,
               value |-> SubSeq(ret.content, 1, P) \o Remainder(ret.delta)
                             \o SubSeq(ret.content, P + D + 1, Len(ret.content))]

\* C15 witness: "1:1:a" applied to a content of three characters replaces
\* the second one.
WellFormedDeltaAppliedWitness ==
    /\ ret.op = "applyDelta"
    /\ ret.delta = <<49, 58, 49, 58, 97>>
    /\ ret.content = <<98, 98, 98>>
    /\ ret.result = [threw |-> FALSE, value |-> <<98, 97, 98>>]

Max(S) == CHOOSE x \in S : \A y \in S : y <= x

Min2(a, b) == IF a < b THEN a ELSE b

\* The length of the longest common prefix of two strings.
LongestCommonPrefix(old, new) ==
    Max({k \in 0..Min2(Len(old), Len(new)) : SubSeq(old, 1, k) = SubSeq(new, 1, k)})

\* The length of the longest common suffix that leaves the first P characters
\* of both strings alone.
KeptSuffix(old, new, P) ==
    Max({k \in 0..(Min2(Len(old), Len(new)) - P) :
            SubSeq(old, Len(old) - k + 1, Len(old))
                = SubSeq(new, Len(new) - k + 1, Len(new))})

\* C16 - for an id of both stores generateDelta returns "P:D:ins", P being
\* the length of the longest common prefix of the local (old) and the remote
\* (new) content, D the number of characters of old between that prefix and
\* the kept common suffix, and ins the characters of new between the two.
DeltaEncoding ==
    (ret.op = "generateDelta" /\ ret.id \in Both) =>
        LET old == localMessages[ret.id].content
            new == remoteMessages[ret.id].content
            P   == LongestCommonPrefix(old, new)
            S   == KeptSuffix(old, new, P)
        IN ret.delta = to_string(P) \o <<Colon>> \o to_string(Len(old) - S - P)
                           \o <<Colon>> \o SubSeq(new, P + 1, Len(new) - S)

\* C16 witness: old "1b1" and new "1a1" give "1:1:a".
DeltaEncodingWitness ==
    /\ ret.op = "generateDelta"
    /\ ret.id \in Both
    /\ localMessages[ret.id].content = <<49, 98, 49>>
    /\ remoteMessages[ret.id].content = <<49, 97, 49>>
    /\ ret.delta = <<49, 58, 49, 58, 97>>

\* The record an add operation with the arguments of r leaves for r.id.
Added(r) ==
    [id |-> r.id, content |-> r.content, timestamp |-> r.timestamp,
     hash |-> hashMessage(r.content)]

\* store2 is store1 with the record of id replaced by msg, all else as it was.
ReplacedIn(store1, store2, id, msg) ==
    /\ DOMAIN store2 = (DOMAIN store1) \cup {id}
    /\ store2[id] = msg
    /\ \A k \in (DOMAIN store1) \ {id} : store2[k] = store1[k]

\* C17 - addLocalMessage(id, c, t) leaves the local store mapping id to
\* exactly (c, t, hashMessage(c)), nothing kept of an earlier record, and
\* every other local record as it was; addRemoteMessage likewise for remote.
AddReplacesWholesale ==
    [][/\ ret'.op = "addLocalMessage"
          => ReplacedIn(localMessages, localMessages', ret'.id, Added(ret'))
       /\ ret'.op = "addRemoteMessage"
          => ReplacedIn(remoteMessages, remoteMessages', ret'.id, Added(ret'))]_vars

\* C17 witness: addRemoteMessage has replaced the record of an id in a store
\* that holds another id too.
AddReplacesWholesaleWitness ==
    /\ ret.op = "addRemoteMessage"
    /\ ret.replaced
    /\ remoteMessages[ret.id] = Added(ret)
    /\ DOMAIN remoteMessages # {ret.id}

EmptyDiff == [added |-> <<>>, modified |-> <<>>, deleted |-> <<>>]

ZeroStats == [localCount |-> 0, remoteCount |-> 0, conflicts |-> 0]

\* C18 - On a new engine and after clear, as long as no add operation has
\* run since, both stores are empty, calculateDiff returns three empty
\* collections and getStats three zeros; right after clear() no store holds
\* a record.
EmptyAfterClear ==
    /\ ret.op \in {"constructor", "clear"}
       => localMessages = EmptyStore /\ remoteMessages = EmptyStore
    /\ passedIds = NoIds
       => /\ localMessages = EmptyStore /\ remoteMessages = EmptyStore
          /\ \A rorder \in Orders(DOMAIN remoteMessages),
                lorder \in Orders(DOMAIN localMessages) :
                 calculateDiff(localMessages, remoteMessages, rorder, lorder)
                     = EmptyDiff
          /\ getStats(localMessages, remoteMessages) = ZeroStats
          /\ ret.op = "calculateDiff" => ret.diff = EmptyDiff
          /\ ret.op = "getStats" => ret.stats = ZeroStats

\* C18 witness: clear() has run on an engine whose two stores both held
\* records.
EmptyAfterClearWitness ==
    /\ ret.op = "clear"
    /\ ret.removed > MaxId
    /\ passedIds = NoIds

\* C19 - getStats returns as localCount the number of distinct ids passed to
\* addLocalMessage since the last clear, as remoteCount the number passed to
\* addRemoteMessage, and as conflicts the number of ids held by both stores
\* with different fingerprints; an add of an id the store holds leaves the
\* count of its store as it was.
StatsCountPassedIds ==
    /\ ret.op = "getStats"
       => /\ ret.stats.localCount = Cardinality(passedIds.local)
          /\ ret.stats.remoteCount = Cardinality(passedIds.remote)
          /\ ret.stats.conflicts =
                 Cardinality({id \in Both :
                                 localMessages[id].hash # remoteMessages[id].hash})
    /\ getStats(localMessages, remoteMessages).localCount
           = Cardinality(passedIds.local)
    /\ getStats(localMessages, remoteMessages).remoteCount
           = Cardinality(passedIds.remote)

\* C19 witness: getStats right after an add that replaced a record, with
\* different counts for the two stores and a conflict.
StatsCountPassedIdsWitness ==
    /\ ret.op = "getStats"
    /\ ret.afterReadd
    /\ ret.stats.localCount # ret.stats.remoteCount
    /\ ret.stats.conflicts > 0

\* The store an engine holds when the add operations were given the ids and
\* contents of store and, for each id, the timestamp ts[id].
Retimed(store, ts) ==
    [k \in DOMAIN store |-> Message(k, store[k].content, ts[k])]

DiffSets(diff) ==
    [added |-> Range(diff.added), modified |-> Range(diff.modified),
     deleted |-> Range(diff.deleted)]

\* One of the orders in which a store may hand out its ids.
SomeOrder(S) == CHOOSE order \in Orders(S) : TRUE

\* C20 - Timestamps do not reach the queries: what calculateDiff (as sets),
\* getStats and generateDelta have returned is what they return on an engine
\* holding the same ids and contents under any other timestamps.
TimestampsOnlyResolve ==
    ret.op \in {"calculateDiff", "getStats", "generateDelta"}
    => \A tl \in [DOMAIN localMessages -> Timestamps],
          tr \in [DOMAIN remoteMessages -> Timestamps] :
           LET local  == Retimed(localMessages, tl)
               remote == Retimed(remoteMessages, tr)
           IN /\ ret.op = "calculateDiff"
                 => DiffSets(calculateDiff(local, remote,
                                           SomeOrder(DOMAIN remote),
                                           SomeOrder(DOMAIN local)))
                        = DiffSets(ret.diff)
              /\ ret.op = "getStats" => getStats(local, remote) = ret.stats
              /\ ret.op = "generateDelta"
                 => generateDelta(local, remote, ret.id) = ret.delta

\* C20 witness: calculateDiff has run on stores that hold an id with one
\* content under two timestamps, and has not returned it as modified.
TimestampsOnlyResolveWitness ==
    /\ ret.op = "calculateDiff"
    /\ \E id \in Both :
           /\ localMessages[id].content = remoteMessages[id].content
           /\ localMessages[id].timestamp # remoteMessages[id].timestamp
           /\ id \notin Range(ret.diff.modified)

\* C21 - applyDelta returns a string, and raises nothing, for every content
\* and every delta whose two leading fields are numeric, whatever the
\* position and the delete count are against the length of the content.
NumericDeltaNeverRaises ==
    (/\ ret.op = "applyDelta"
     /\ Colons(ret.delta) >= 2
     /\ NumericField(FirstField(ret.delta))
     /\ NumericField(SecondField(ret.delta)))
    => ~ret.result.threw

\* C22 - in generateDelta the suffix scan ends with i <= oldEnd <= len(old)
\* and i <= newEnd <= len(new), i being the length of the common prefix, so
\* the delete count written is the number oldEnd - i >= 0 and the inserted
\* text has the length newEnd - i >= 0.
SuffixNeverOverlaps ==
    (ret.op = "generateDelta" /\ ret.id \in Both) =>
        LET old  == localMessages[ret.id].content
            new  == remoteMessages[ret.id].content
            i    == CommonPrefix(old, new, 0)
            ends == CommonSuffix(old, new, i, Len(old), Len(new))
        IN /\ i <= ends[1] /\ ends[1] <= Len(old)
           /\ i <= ends[2] /\ ends[2] <= Len(new)
           /\ DigitsOnly(SecondField(ret.delta))
           /\ Decimal(SecondField(ret.delta)) = ends[1] - i
           /\ Len(Remainder(ret.delta)) = ends[2] - i

\* C22 witness: old "aa" and new "a" give "1:1:", the one 'a' of new being
\* taken by the prefix and not again by the suffix.
SuffixNeverOverlapsWitness ==
    /\ ret.op = "generateDelta"
    /\ ret.id \in Both
    /\ localMessages[ret.id].content = <<97, 97>>
    /\ remoteMessages[ret.id].content = <<97>>
    /\ ret.delta = <<49, 58, 49, 58>>

\* The edits of old that give new: <<P, D, ins>> with P + D <= len(old) and
\* old[0:P] + ins + old[P+D:] = new.  The equation fixes ins as the
\* len(new) - (len(old) - D) characters of new after the first P.  (A triple
\* with P or P + D beyond len(old) gives the same string as the one cut
\* back to len(old), at no smaller cost.)
Edits(old, new) ==
    LET InsLen(D) == Len(new) - (Len(old) - D)
        Ins(P, D) == SubSeq(new, P + 1, P + InsLen(D))
        fits      == {pd \in (0..Len(old)) \X (0..Len(old)) :
                         /\ pd[1] + pd[2] <= Len(old)
                         /\ InsLen(pd[2]) >= 0
                         /\ pd[1] + InsLen(pd[2]) <= Len(new)}
    IN {e \in {<<pd[1], pd[2], Ins(pd[1], pd[2])>> : pd \in fits} :
           SubSeq(old, 1, e[1]) \o e[3]
               \o SubSeq(old, e[1] + e[2] + 1, Len(old)) = new}

\* C23 - the delta "P:D:ins" generateDelta returns is an edit of old that
\* gives new, and no edit of old that gives new has a smaller
\* deleteCount + len(insertedText).
DeltaMinimal ==
    (ret.op = "generateDelta" /\ ret.id \in Both) =>
        LET old == localMessages[ret.id].content
            new == remoteMessages[ret.id].content
            P   == Decimal(FirstField(ret.delta))
            D   == Decimal(SecondField(ret.delta))
            ins == Remainder(ret.delta)
        IN /\ <<P, D, ins>> \in Edits(old, new)
           /\ \A e \in Edits(old, new) : D + Len(ins) <= e[2] + Len(e[3])

\* C23 witness: old "aba" and new "aa" give "1:1:" (cost 1) where replacing
\* the whole content (cost 5) gives new as well.
DeltaMinimalWitness ==
    /\ ret.op = "generateDelta"
    /\ ret.id \in Both
    /\ localMessages[ret.id].content = <<97, 98, 97>>
    /\ remoteMessages[ret.id].content = <<97, 97>>
    /\ ret.delta = <<49, 58, 49, 58>>
    /\ <<0, 3, <<97, 97>>>> \in Edits(<<97, 98, 97>>, <<97, 97>>)

\* C24 - applyDelta splits a delta at its first two ':' only: when what
\* follows the second ':' itself holds a ':' or a digit, all of it is
\* inserted, and the delta generated for an id of both stores still turns
\* the local content into the remote content.
InsertionVerbatim ==
    (/\ ret.op = "applyDelta"
     /\ Colons(ret.delta) >= 2
     /\ DigitsOnly(FirstField(ret.delta))
     /\ DigitsOnly(SecondField(ret.delta))
     /\ Decimal(FirstField(ret.delta)) <= Len(ret.content)
     /\ \E k \in DOMAIN Remainder(ret.delta) :
            Remainder(ret.delta)[k] = Colon \/ IsDigit(Remainder(ret.delta)[k]))
    => LET P   == Decimal(FirstField(ret.delta))
           D   == Decimal(SecondField(ret.delta))
           ins == Remainder(ret.delta)
       IN /\ ~ret.result.threw
          /\ Len(ret.result.value)
                 = P + Len(ins) + Len(SubSeq(ret.content, P + D + 1, Len(ret.content)))
          /\ SubSeq(ret.result.value, P + 1, P + Len(ins)) = ins
          /\ \A id \in Both :
                 (/\ ret.content = localMessages[id].content
                  /\ ret.delta = generateDelta(localMessages, remoteMessages, id))
                 => ret.result.value = remoteMessages[id].content

\* C24 witness: old "aba" and new "a:a": the delta "1:1::" inserts ":".
InsertionVerbatimWitness ==
    /\ ret.op = "applyDelta"
    /\ 1 \in Both
    /\ localMessages[1].content = <<97, 98, 97>>
    /\ remoteMessages[1].content = <<97, 58, 97>>
    /\ ret.content = <<97, 98, 97>>
    /\ ret.delta = <<49, 58, 49, 58, 58>>
    /\ ret.result = [threw |-> FALSE, value |-> <<97, 58, 97>>]

\* C25 - the two stores are independent: addLocalMessage leaves the remote
\* store as it was and addRemoteMessage the local store, also for an id the
\* other store holds.
StoresIndependent ==
    [][/\ ret'.op = "addLocalMessage" => remoteMessages' = remoteMessages
       /\ ret'.op = "addRemoteMessage" => localMessages' = localMessages]_vars

\* C25 witness: addLocalMessage for an id that remote holds with another
\* content and timestamp, which remote still holds.
StoresIndependentWitness ==
    /\ ret.op = "addLocalMessage"
    /\ ret.id \in DOMAIN remoteMessages
    /\ remoteMessages[ret.id].content # ret.content
    /\ remoteMessages[ret.id].timestamp # ret.timestamp
    /\ localMessages[ret.id].content = ret.content

\* C26 - records are never deleted one by one: every id passed to an add
\* operation since the last clear (or since construction) is a key of the
\* store it was added to, whatever operations have run since.
AddedIdsStay ==
    /\ passedIds.local \subseteq DOMAIN localMessages
    /\ passedIds.remote \subseteq DOMAIN remoteMessages

\* C26 witness: after a diff that reported an id as deleted and a later
\* resolveConflict, local still holds that id.
AddedIdsStayWitness ==
    /\ ret.op = "resolveConflict"
    /\ lastDiff.taken
    /\ lastDiff.deleted # {}
    /\ lastDiff.deleted \subseteq DOMAIN localMessages
    /\ passedIds.remote # {}

\* C27 - Sync convergence: a diff taken after the caller has stored the
\* remote content for some ids of added and the patched local content for
\* some ids of modified returns the sets of the diff before less exactly
\* those ids, deleted as it was, and getStats counts as conflicts what is
\* left of modified; after all of them added and modified are empty and
\* conflicts is 0.  No applyDelta of the sync throws.
SyncConverges ==
    [][/\ (ret'.op = "calculateDiff" /\ "todo" \in DOMAIN lastDiff)
          => /\ lastDiff'.added = lastDiff.todo.added
             /\ lastDiff'.modified = lastDiff.todo.modified
             /\ lastDiff'.deleted = lastDiff.todo.deleted
             /\ getStats(localMessages', remoteMessages').conflicts
                    = Cardinality(lastDiff.todo.modified)
       /\ ret'.op = "applyDelta" => ~ret'.result.threw]_vars

\* C27 witness: the caller has worked through a diff with an added and a
\* modified id, and nothing is left of either set.
SyncConvergesWitness ==
    /\ ret.op = "addLocalMessage"
    /\ "todo" \in DOMAIN lastDiff
    /\ lastDiff.todo.pulled # {}
    /\ lastDiff.todo.patched # {}
    /\ lastDiff.todo.added = {}
    /\ lastDiff.todo.modified = {}

\* C28 - for the sets calculateDiff returned for the present stores: an id
\* of modified gets from resolveConflict resolved = true with one of its two
\* stored contents as winner and from generateDelta a non-empty delta; an
\* id of added or deleted gets resolved = false and the empty delta.
ModifiedResolvable ==
    lastDiff.taken =>
        /\ (ret.op = "resolveConflict" /\ ret.id \in lastDiff.modified)
           => /\ ret.result.resolved
              /\ ret.result.winner \in {localMessages[ret.id].content,
                                        remoteMessages[ret.id].content}
        /\ (ret.op = "resolveConflict"
              /\ ret.id \in lastDiff.added \cup lastDiff.deleted)
           => ~ret.result.resolved
        /\ (ret.op = "generateDelta" /\ ret.id \in lastDiff.modified)
           => ret.delta # <<>>
        /\ (ret.op = "generateDelta"
              /\ ret.id \in lastDiff.added \cup lastDiff.deleted)
           => ret.delta = <<>>

\* djb2 as the claim states it: hash = hash * 33 + byte modulo 2^32, the
\* byte taken as a value of 0..255; the value as two 16 bit halves.
Djb2Step(h, byte) ==
    LET low == h[2] * 33 + byte
    IN <<(h[1] * 33 + (low \div HalfWord)) % HalfWord, low % HalfWord>>

RECURSIVE Djb2From(_, _, _)
Djb2From(h, content, k) ==
    IF k > Len(content) THEN h ELSE Djb2From(Djb2Step(h, content[k]), content, k + 1)

\* C29 - the fingerprint stored for a content is the decimal rendering of
\* the djb2 value of its bytes: from the seed 5381, hash = hash * 33 + byte
\* for each byte in order, modulo 2^32, for every byte value 0..255.
HashIsDjb2OfBytes ==
    \A id \in DOMAIN localMessages :
        localMessages[id].hash =
            hash_to_string(Djb2From(<<HashSeed \div HalfWord, HashSeed % HalfWord>>,
                                    localMessages[id].content, 1))

\* C30 - Cipher round trip: decryptAES of what encryptAES returned for a
\* plaintext, with the same non-empty key and IV, is that plaintext,
\* whatever its length.
CipherRoundTrip ==
    ret.op = "decryptAES" => ret.result = ret.plaintext

====
